---- MODULE Spec2Model ----
(***************************************************************************)
(* django_typomatic: a process-wide registry of Django Rest Framework      *)
(* serializer classes per context (ts_interface), and the generation of    *)
(* TypeScript interface text from it (generate_ts).                        *)
(*                                                                         *)
(* Python strings are TLA+ strings; a class object is its identity (a      *)
(* string naming the class object), its __name__ a separate attribute, so  *)
(* that two distinct classes can carry the same __name__.                  *)
(***************************************************************************)
EXTENDS Integers, Sequences, FiniteSets, TLC

\* Bound: the number of registering decorator applications in one run.
MaxRegs == 3

\* Bound: generate_ts calls per context are counted up to this number.
MaxCount == 2

(***************************************************************************)
(* The inputs: context names, output paths, classes and their fields.      *)
(***************************************************************************)
Contexts == {"default", "other"}

\* A call that leaves the context argument out.
NoArg == "<omitted>"

ContextArgs == Contexts \cup {NoArg}

\* context='default' in the signatures of ts_interface and generate_ts.
DefaultContext == "default"

ContextOf(arg) == IF arg = NoArg THEN DefaultContext ELSE arg

Paths == {"types.ts"}

\* What the output path may hold before the program runs.
InitialFiles == { [exists |-> FALSE, data |-> ""],
                  [exists |-> TRUE,  data |-> ""],
                  [exists |-> TRUE,  data |-> "// stale\n"] }

\* Class objects. Foo and FooTwin are two distinct classes named "Foo".
SerializerClasses == {"Foo", "Bar", "FooTwin"}

Classes == SerializerClasses \cup {"Plain"}

\* cls.__name__
__name__(cls) == IF cls = "FooTwin" THEN "Foo" ELSE cls

\* The classes cls inherits from (itself included).
Mro(cls) ==
    CASE cls = "Foo"     -> {"Foo", "Serializer", "object"}
      [] cls = "Bar"     -> {"Bar", "Serializer", "object"}
      [] cls = "FooTwin" -> {"FooTwin", "ModelSerializer", "Serializer", "object"}
      [] OTHER           -> {cls, "object"}

issubclass(cls, base) == base \in Mro(cls)

\* A field instance without a child attribute: IntegerField(), Foo(), ...
Plain(kind) == [type |-> kind, has_child |-> FALSE, child_type |-> "-"]

\* A field instance with a child attribute: ListField(child=X()), and
\* X(many=True), which DRF builds as a ListSerializer whose child is X().
WithChild(container, kind) ==
    [type |-> container, has_child |-> TRUE, child_type |-> kind]

\* serializer._declared_fields.items(), in declaration order.
_declared_fields(cls) ==
    CASE cls = "Foo" ->
           << <<"id", Plain("IntegerField")>> >>
      [] cls = "Bar" ->
           << <<"foo", Plain("Foo")>>,
              <<"twin", Plain("FooTwin")>>,
              <<"foos", WithChild("ListSerializer", "Foo")>>,
              <<"twins", WithChild("ListSerializer", "FooTwin")>>,
              <<"tags", WithChild("ListField", "CharField")>> >>
      [] cls = "FooTwin" ->
           << <<"note", Plain("CustomField")>> >>
      [] OTHER -> << >>

\* serializer().get_fields().items() of a ModelSerializer: the model's
\* fields followed by the declared ones.
get_fields(cls) ==
    IF cls = "FooTwin"
    THEN << <<"pk", Plain("IntegerField")>>,
            <<"marks", WithChild("ListField", "CustomField")>> >>
         \o _declared_fields(cls)
    ELSE _declared_fields(cls)

\* from .mappings import mappings: DRF field class -> TypeScript type.
mappings == [k \in {"IntegerField", "CharField", "BooleanField"} |->
               CASE k = "IntegerField" -> "number"
                 [] k = "CharField"    -> "string"
                 [] OTHER              -> "boolean"]

\* dict.get(key, default)
DictGet(d, key, default) == IF key \in DOMAIN d THEN d[key] ELSE default

(***************************************************************************)
(* The state.                                                              *)
(***************************************************************************)
VARIABLES
    __serializers,  \* dict: context -> list of classes
    files,          \* the file system at the output paths
    call,           \* the last call made and how it ended
    written         \* per context: what the last generate_ts for it wrote and
                    \* how many there were, since the context's list last changed

vars == <<__serializers, files, call, written>>

NoCall == [op |-> "none", context |-> NoArg, cls |-> "-", output_path |-> "-",
           returned |-> "-", raised |-> "None"]

NotWritten == [times |-> 0, data |-> ""]

\* "x in list": some element equals x; for class objects, is x.
InList(x, list) == \E i \in DOMAIN list : list[i] = x

RECURSIVE SumLen(_, _)
SumLen(d, keys) ==
    IF keys = {} THEN 0
    ELSE LET k == CHOOSE k \in keys : TRUE
         IN  Len(d[k]) + SumLen(d, keys \ {k})

\* Registrations made so far.
Registrations == SumLen(__serializers, DOMAIN __serializers)

\* sep.join(seq[1..n])
RECURSIVE JoinUpTo(_, _, _)
JoinUpTo(seq, sep, n) ==
    IF n = 0 THEN ""
    ELSE IF n = 1 THEN seq[1]
    ELSE JoinUpTo(seq, sep, n - 1) \o sep \o seq[n]

\* str.join
Join(seq, sep) == JoinUpTo(seq, sep, Len(seq))

(***************************************************************************)
(* ts_interface(context)(cls)                                              *)
(***************************************************************************)
\* Faulty variant of decorator: a class already in the context's list is
\* not appended again.
decorator_unique(cls, context) ==
    IF issubclass(cls, "Serializer")
    THEN IF context \notin DOMAIN __serializers
         THEN [c \in DOMAIN __serializers \cup {context} |->
                 IF c = context THEN <<cls>> ELSE __serializers[c]]
         ELSE IF InList(cls, __serializers[context])
              THEN __serializers
              ELSE [__serializers EXCEPT ![context] = Append(@, cls)]
    ELSE __serializers

\* Faulty variant of decorator: the context's list is created before the
\* class is tested.
decorator_creates_first(cls, context) ==
    LET created == IF context \notin DOMAIN __serializers
                   THEN [c \in DOMAIN __serializers \cup {context} |->
                           IF c = context THEN << >> ELSE __serializers[c]]
                   ELSE __serializers
    IN  IF issubclass(cls, "Serializer")
        THEN [created EXCEPT ![context] = Append(@, cls)]
        ELSE created

\* The registry after decorator(cls) under context.
decorator(cls, context) ==
    IF issubclass(cls, "Serializer")
    THEN IF context \notin DOMAIN __serializers
         THEN [c \in DOMAIN __serializers \cup {context} |->
                 IF c = context THEN <<cls>> ELSE __serializers[c]]
         ELSE [__serializers EXCEPT ![context] = Append(@, cls)]
    ELSE __serializers

ts_interface(arg, cls) ==
    LET context == ContextOf(arg) IN
    /\ issubclass(cls, "Serializer") => Registrations < MaxRegs
    /\ __serializers' = decorator(cls, context)
    /\ call' = [op |-> "ts_interface", context |-> arg, cls |-> cls,
                output_path |-> "-", returned |-> cls, raised |-> "None"]
    /\ written' = IF __serializers' = __serializers
                  THEN written
                  ELSE [written EXCEPT ![context] = NotWritten]
    /\ UNCHANGED files

(***************************************************************************)
(* generate_ts(output_path, context)                                       *)
(***************************************************************************)
\* Faulty variant of __process_field: the registry is not consulted.
__process_field_unregistered(field_name, field, context) ==
    LET is_many    == field.has_child
        field_type == IF is_many THEN field.child_type ELSE field.type
        ts_type    == DictGet(mappings, field_type, "any")
    IN  <<field_name, IF is_many THEN ts_type \o "[]" ELSE ts_type>>

\* Faulty variant of __process_field: the class is looked for in the lists
\* of all contexts.
__process_field_any_context(field_name, field, context) ==
    LET is_many    == field.has_child
        field_type == IF is_many THEN field.child_type ELSE field.type
        ts_type    == IF \E c \in DOMAIN __serializers :
                            InList(field_type, __serializers[c])
                      THEN __name__(field_type)
                      ELSE DictGet(mappings, field_type, "any")
    IN  <<field_name, IF is_many THEN ts_type \o "[]" ELSE ts_type>>

\* Faulty variant of __process_field: the class is looked for by name.
__process_field_by_name(field_name, field, context) ==
    LET is_many    == field.has_child
        field_type == IF is_many THEN field.child_type ELSE field.type
        ts_type    == IF \E i \in DOMAIN __serializers[context] :
                            __name__(__serializers[context][i]) = __name__(field_type)
                      THEN __name__(field_type)
                      ELSE DictGet(mappings, field_type, "any")
    IN  <<field_name, IF is_many THEN ts_type \o "[]" ELSE ts_type>>

\* Faulty variant of __process_field: "[]" is appended to mapped types only.
__process_field_suffix_mapped(field_name, field, context) ==
    LET is_many    == field.has_child
        field_type == IF is_many THEN field.child_type ELSE field.type
    IN  IF InList(field_type, __serializers[context])
        THEN <<field_name, __name__(field_type)>>
        ELSE <<field_name, IF is_many
                           THEN DictGet(mappings, field_type, "any") \o "[]"
                           ELSE DictGet(mappings, field_type, "any")>>

__process_field(field_name, field, context) ==
    LET is_many    == field.has_child
        field_type == IF is_many THEN field.child_type ELSE field.type
        ts_type    == IF InList(field_type, __serializers[context])
                      THEN __name__(field_type)
                      ELSE DictGet(mappings, field_type, "any")
    IN  <<field_name, IF is_many THEN ts_type \o "[]" ELSE ts_type>>

__get_ts_interface(serializer, context) ==
    LET name   == __name__(serializer)
        fields == IF issubclass(serializer, "ModelSerializer")
                  THEN get_fields(serializer)
                  ELSE _declared_fields(serializer)
        ts_fields == [i \in 1..Len(fields) |->
                        LET ts_field == __process_field(fields[i][1], fields[i][2], context)
                        IN  "    " \o ts_field[1] \o ": " \o ts_field[2] \o ";"]
        collapsed_fields == Join(ts_fields, "\n")
    IN  "export interface " \o name \o " {\n" \o collapsed_fields \o "\n}\n\n"

\* Faulty variant of open_w: open(output_path, 'a'), which keeps the data.
open_a(file) == [exists |-> TRUE, data |-> file.data]

\* open(output_path, 'w'): creates the file or truncates it.
open_w(file) == [exists |-> TRUE, data |-> ""]

\* Faulty variant of generate_ts_files: the blocks are joined by a newline.
generate_ts_files_separated(output_path, context) ==
    LET opened == [files EXCEPT ![output_path] = open_w(@)] IN
    IF context \notin DOMAIN __serializers
    THEN opened
    ELSE LET interfaces == [i \in 1..Len(__serializers[context]) |->
                              __get_ts_interface(__serializers[context][i], context)]
         IN  [opened EXCEPT ![output_path].data = @ \o Join(interfaces, "\n")]

\* The files after generate_ts(output_path, context), which opens the
\* output before it looks the context up.
generate_ts_files(output_path, context) ==
    LET opened == [files EXCEPT ![output_path] = open_w(@)] IN
    IF context \notin DOMAIN __serializers
    THEN opened
    ELSE LET interfaces == [i \in 1..Len(__serializers[context]) |->
                              __get_ts_interface(__serializers[context][i], context)]
         IN  [opened EXCEPT ![output_path].data = @ \o Join(interfaces, "")]

\* Faulty variant of generate_ts_serializers: the registry as a
\* defaultdict(list), which stores an empty list on a missing key.
generate_ts_serializers_defaultdict(context) ==
    IF context \in DOMAIN __serializers
    THEN __serializers
    ELSE [c \in DOMAIN __serializers \cup {context} |->
            IF c = context THEN << >> ELSE __serializers[c]]

\* The registry after generate_ts: it only subscripts the dict, once per
\* serializer rendered and once per field, and a dict stores nothing on a
\* subscription, found or not.
generate_ts_serializers(context) == __serializers

generate_ts(output_path, arg) ==
    LET context == ContextOf(arg) IN
    /\ files' = generate_ts_files(output_path, context)
    /\ call' = [op |-> "generate_ts", context |-> arg, cls |-> "-",
                output_path |-> output_path, returned |-> "None",
                raised |-> IF context \in DOMAIN __serializers
                           THEN "None" ELSE "KeyError"]
    /\ written' = [written EXCEPT ![context] =
                     [times |-> IF @.times < MaxCount THEN @.times + 1 ELSE @.times,
                      data |-> files'[output_path].data]]
    /\ __serializers' = generate_ts_serializers(context)

(***************************************************************************)
(* The specification.                                                      *)
(***************************************************************************)
Init ==
    /\ __serializers = << >>
    /\ files \in [Paths -> InitialFiles]
    /\ call = NoCall
    /\ written = [c \in Contexts |-> NotWritten]

Register == \E arg \in ContextArgs, cls \in Classes : ts_interface(arg, cls)

Generate == \E p \in Paths, arg \in ContextArgs : generate_ts(p, arg)

Next == Register \/ Generate

Spec == Init /\ [][Next]_vars

(***************************************************************************)
(* Text predicates used to read the generated output.                      *)
(***************************************************************************)
Occurrences(text, part) ==
    {i \in 1..(Len(text) - Len(part) + 1) : SubSeq(text, i, i + Len(part) - 1) = part}

Contains(text, part) == Occurrences(text, part) # {}

EndsWith(text, part) ==
    /\ Len(text) >= Len(part)
    /\ SubSeq(text, Len(text) - Len(part) + 1, Len(text)) = part

DropLast(text, n) == SubSeq(text, 1, Len(text) - n)

\* The last call was generate_ts and it returned normally.
Generated == call.op = "generate_ts" /\ call.raised = "None"

\* The context the last call ran under, and the file it wrote.
CallContext == IF call.context = NoArg THEN "default" ELSE call.context

Output == files[call.output_path]

\* The fields a serializer class exposes to the renderer.
FieldsOf(cls) ==
    IF "ModelSerializer" \in Mro(cls) THEN get_fields(cls) ELSE _declared_fields(cls)

ElementKind(field) == IF field.has_child THEN field.child_type ELSE field.type

ArraySuffix(field) == IF field.has_child THEN "[]" ELSE ""

Elements(list) == {list[i] : i \in DOMAIN list}

\* The output line of a field, up to and including its type.
FieldLine(field_name, ts_type) == "    " \o field_name \o ": " \o ts_type

\* Every field of every class registered under c that satisfies Which.
FieldsUnder(c, Which(_)) ==
    {f \in UNION {Elements(FieldsOf(cls)) : cls \in Elements(__serializers[c])} :
        Which(f[2])}

\* The blocks of list[1..n] under context c, one after the other.
RECURSIVE Blocks(_, _, _)
Blocks(list, c, n) ==
    IF n = 0 THEN "" ELSE Blocks(list, c, n - 1) \o __get_ts_interface(list[n], c)

FooBlock == "export interface Foo {\n    id: number;\n}\n\n"

(***************************************************************************)
(* C1: after a generate_ts that returned normally, the output file holds   *)
(* exactly the blocks of the context's registered classes, in registration *)
(* order, with nothing between them, and as many blocks as registrations   *)
(* (a class registered twice gives two blocks).                            *)
(***************************************************************************)
C1_OutputIsConcatenation ==
    Generated =>
        LET list == __serializers[CallContext] IN
        /\ Output.exists
        /\ Output.data = Blocks(list, CallContext, Len(list))
        /\ Cardinality(Occurrences(Output.data, "export interface ")) = Len(list)
        /\ Cardinality(Occurrences(Output.data, "\n}\n\n")) = Len(list)

C1_Witness ==
    /\ Generated
    /\ __serializers[CallContext] = <<"Foo", "Foo">>
    /\ Output.data = FooBlock \o FooBlock

(***************************************************************************)
(* C2: a generate_ts that fails with a lookup failure leaves the output    *)
(* path as it was: not created, not truncated, not written.                *)
(***************************************************************************)
C2_FailedGenerateLeavesOutput ==
    [][(call'.op = "generate_ts" /\ call'.raised = "KeyError") => files' = files]_vars

(***************************************************************************)
(* C3: in the output generated for c, a field of a class registered under  *)
(* c whose element kind is a class registered under c has that class's     *)
(* name as its type ("[]" appended for an array), never "any", wherever    *)
(* the two registrations stand in the order.                               *)
(***************************************************************************)
IsReference(c, field) == ElementKind(field) \in Elements(__serializers[c])

C3_ReferenceResolvesToName ==
    Generated =>
        \A f \in FieldsUnder(CallContext, LAMBDA field : IsReference(CallContext, field)) :
            /\ Contains(Output.data,
                        FieldLine(f[1], __name__(ElementKind(f[2])) \o ArraySuffix(f[2]))
                        \o ";\n")
            /\ ~Contains(Output.data, FieldLine(f[1], "any"))

\* Bar was registered before the Foo its fields refer to.
C3_Witness ==
    /\ Generated
    /\ __serializers[CallContext] = <<"Bar", "Foo">>
    /\ Contains(Output.data, "    foo: Foo;\n")
    /\ Contains(Output.data, "    foos: Foo[];\n")

(***************************************************************************)
(* C4: a field whose element kind is a serializer class registered only    *)
(* under other contexts is rendered as "any" ("any[]" for an array), and   *)
(* the text generate_ts gives for a context stays what it last wrote for   *)
(* it for as long as registrations go to other contexts only.              *)
(***************************************************************************)
RegisteredOnlyElsewhere(c, field) ==
    /\ ElementKind(field) \notin Elements(__serializers[c])
    /\ \E d \in DOMAIN __serializers \ {c} :
          ElementKind(field) \in Elements(__serializers[d])

\* What generate_ts would write for context c.
TextFor(c) == Blocks(__serializers[c], c, Len(__serializers[c]))

C4_ContextIsolation ==
    /\ Generated =>
          \A f \in FieldsUnder(CallContext,
                               LAMBDA field : RegisteredOnlyElsewhere(CallContext, field)) :
              Contains(Output.data, FieldLine(f[1], "any" \o ArraySuffix(f[2])) \o ";\n")
    /\ \A c \in DOMAIN __serializers :
          written[c].times > 0 => TextFor(c) = written[c].data

\* Foo was registered under another context after the text for the
\* context holding Bar was written.
C4_Witness ==
    /\ call.op = "ts_interface"
    /\ call.cls = "Foo"
    /\ \E c \in DOMAIN __serializers \ {CallContext} :
          /\ "Bar" \in Elements(__serializers[c])
          /\ "Foo" \notin Elements(__serializers[c])
          /\ written[c].times > 0
          /\ Contains(written[c].data, "    foo: any;\n")
          /\ Contains(written[c].data, "    foos: any[];\n")

(***************************************************************************)
(* C5: with T registered under c and a distinct class T' of the same name  *)
(* not registered under c, a field of kind T' is rendered as "any" and a   *)
(* field of kind T as the name.                                            *)
(***************************************************************************)
Namesake(c, field) ==
    /\ ElementKind(field) \in SerializerClasses
    /\ ElementKind(field) \notin Elements(__serializers[c])
    /\ \E t \in Elements(__serializers[c]) :
          t # ElementKind(field) /\ __name__(t) = __name__(ElementKind(field))

C5_ReferenceByIdentity ==
    Generated =>
        /\ \A f \in FieldsUnder(CallContext, LAMBDA field : Namesake(CallContext, field)) :
              /\ Contains(Output.data,
                          FieldLine(f[1], "any" \o ArraySuffix(f[2])) \o ";\n")
              /\ ~Contains(Output.data, FieldLine(f[1], __name__(ElementKind(f[2]))))
        /\ \A f \in FieldsUnder(CallContext, LAMBDA field : IsReference(CallContext, field)) :
              Contains(Output.data,
                       FieldLine(f[1], __name__(ElementKind(f[2])) \o ArraySuffix(f[2]))
                       \o ";\n")

C5_Witness ==
    /\ Generated
    /\ "Bar" \in Elements(__serializers[CallContext])
    /\ "Foo" \in Elements(__serializers[CallContext])
    /\ "FooTwin" \notin Elements(__serializers[CallContext])
    /\ Contains(Output.data, "    foo: Foo;\n")
    /\ Contains(Output.data, "    twin: any;\n")
    /\ Contains(Output.data, "    twins: any[];\n")

(***************************************************************************)
(* C6: under every registered context, the type of a field with a child of *)
(* kind X is the type of a childless field of kind X followed by "[]"; the *)
(* latter is the class name if X is registered there, the mappings entry   *)
(* if X is mapped, "any" otherwise, and does not end in "[]".              *)
(***************************************************************************)
ElementKinds == SerializerClasses \cup DOMAIN mappings \cup {"CustomField"}

Containers == {"ListField", "ListSerializer"}

C6_ArraySuffix ==
    \A c \in DOMAIN __serializers : \A x \in ElementKinds : \A k \in Containers :
        LET many == __process_field("f", WithChild(k, x), c)
            one  == __process_field("f", Plain(x), c)
        IN  /\ many[1] = "f" /\ one[1] = "f"
            /\ EndsWith(many[2], "[]")
            /\ DropLast(many[2], 2) = one[2]
            /\ ~EndsWith(one[2], "[]")
            /\ one[2] = IF x \in Elements(__serializers[c]) THEN __name__(x)
                        ELSE IF x \in DOMAIN mappings THEN mappings[x]
                        ELSE "any"

C6_Witness ==
    /\ Generated
    /\ Contains(Output.data, "    foos: Foo[];\n")
    /\ Contains(Output.data, "    twins: any[];\n")
    /\ Contains(Output.data, "    tags: string[];\n")
    /\ Contains(Output.data, "    foo: Foo;\n")

(***************************************************************************)
(* C7: a generate_ts for a context for which generate_ts already ran, with *)
(* no registration under that context since (so also: with no registration *)
(* at all since), leaves in the output exactly the text that earlier call  *)
(* left, whatever the output held in between.                              *)
(***************************************************************************)
C7_GenerateIdempotent ==
    [][call'.op = "generate_ts" =>
         LET c == IF call'.context = NoArg THEN "default" ELSE call'.context IN
         written[c].times > 0 =>
             /\ files'[call'.output_path].exists
             /\ files'[call'.output_path].data = written[c].data]_vars

\* A second generate_ts for a context, run over the output of a
\* generate_ts for another context.
C7_Witness ==
    /\ Generated
    /\ written[CallContext].times >= 2
    /\ \E d \in Contexts \ {CallContext} :
          written[d].times >= 1 /\ written[d].data # written[CallContext].data
    /\ Output.data = written[CallContext].data

(***************************************************************************)
(* C8: a generate_ts call, returning or raising, leaves the registry as it *)
(* was: the same contexts with the same lists; a failed one adds no entry  *)
(* for the unknown context.                                                *)
(***************************************************************************)
C8_GenerateReadsOnly ==
    [][call'.op = "generate_ts" =>
         /\ DOMAIN __serializers' = DOMAIN __serializers
         /\ \A c \in DOMAIN __serializers : __serializers'[c] = __serializers[c]]_vars

C8_Witness ==
    /\ call.op = "generate_ts"
    /\ call.raised = "KeyError"
    /\ CallContext \notin DOMAIN __serializers
    /\ DOMAIN __serializers # {}

(***************************************************************************)
(* C9: decorating a serializer class T under context c appends T to c's    *)
(* list (a new list <<T>> if c had none), also when T is already in it,    *)
(* changes no other context, and returns T; with the context left out, c   *)
(* is "default".                                                           *)
(***************************************************************************)
ListOf(d, c) == IF c \in DOMAIN d THEN d[c] ELSE << >>

C9_RegisterAppends ==
    [][(call'.op = "ts_interface" /\ "Serializer" \in Mro(call'.cls)) =>
         LET c == IF call'.context = NoArg THEN "default" ELSE call'.context IN
         /\ DOMAIN __serializers' = DOMAIN __serializers \cup {c}
         /\ __serializers'[c] = ListOf(__serializers, c) \o <<call'.cls>>
         /\ \A d \in DOMAIN __serializers \ {c} : __serializers'[d] = __serializers[d]
         /\ call'.returned = call'.cls]_vars

\* The same class registered twice, with the context left out.
C9_Witness ==
    /\ call.op = "ts_interface"
    /\ call.context = NoArg
    /\ DOMAIN __serializers = {"default", "other"}
    /\ Len(__serializers["default"]) >= 2
    /\ __serializers["default"][Len(__serializers["default"])] = call.cls
    /\ __serializers["default"][Len(__serializers["default"]) - 1] = call.cls

(***************************************************************************)
(* C10: a context's list only grows at its end and is never empty; a       *)
(* generate_ts for a context with a list does not raise the lookup         *)
(* failure, one for a context without a list does; decorating a class that *)
(* is no Serializer subclass returns it and changes no context.            *)
(***************************************************************************)
IsPrefix(s, t) == Len(s) <= Len(t) /\ SubSeq(t, 1, Len(s)) = s

C10_RegistryInvariant ==
    [][/\ \A c \in DOMAIN __serializers :
             /\ c \in DOMAIN __serializers'
             /\ IsPrefix(__serializers[c], __serializers'[c])
       /\ \A c \in DOMAIN __serializers' : __serializers'[c] # << >>
       /\ call'.op = "generate_ts" =>
             LET c == IF call'.context = NoArg THEN "default" ELSE call'.context IN
             (call'.raised = "None") <=> (c \in DOMAIN __serializers)
       /\ (call'.op = "ts_interface" /\ "Serializer" \notin Mro(call'.cls)) =>
             /\ __serializers' = __serializers
             /\ call'.returned = call'.cls]_vars

\* A class that is no Serializer was decorated under a context that has
\* no list, after a generate_ts for a registered context went through.
C10_Witness ==
    /\ call.op = "ts_interface"
    /\ call.cls = "Plain"
    /\ CallContext \notin DOMAIN __serializers
    /\ \E c \in DOMAIN __serializers : written[c].times > 0 /\ written[c].data # ""

====
